---- MODULE Spec2Model ----
(***************************************************************************)
(* Model of app.py (QR Certificate System): the three flat files           *)
(* (registrations.csv, config.json, auth.json), the per-session Streamlit  *)
(* state, and the script-run handlers of the form page and the admin page. *)
(*                                                                         *)
(* Text is a sequence of characters, so that strip(), split(), lower(),    *)
(* upper(), len() and the CSV reader's newline translation are computed.   *)
(* Text that the program never inspects (event name, logos, date, time)    *)
(* is carried as a one-element sequence holding the whole text.            *)
(***************************************************************************)
EXTENDS Integers, Sequences, FiniteSets, TLC

\* ---------------------------------------------------------------- bounds
MaxRegs == 2

Sessions == {"s1", "s2"}

\* ------------------------------------------------------------- text
Whitespace == {" ", "\t", "\r", "\n"}

LowerLetters == <<"a", "b", "c", "d", "e", "f", "g", "h", "i", "j", "k", "l", "m",
                 "n", "o", "p", "q", "r", "s", "t", "u", "v", "w", "x", "y", "z">>
UpperLetters == <<"A", "B", "C", "D", "E", "F", "G", "H", "I", "J", "K", "L", "M",
                 "N", "O", "P", "Q", "R", "S", "T", "U", "V", "W", "X", "Y", "Z">>

\* the letter tables as maps, built once
LowerMap == [c \in {UpperLetters[i] : i \in 1..26} |->
               LowerLetters[CHOOSE i \in 1..26 : UpperLetters[i] = c]]
UpperMap == [c \in {LowerLetters[i] : i \in 1..26} |->
               UpperLetters[CHOOSE i \in 1..26 : LowerLetters[i] = c]]

LowerChar(c) == IF c \in DOMAIN LowerMap THEN LowerMap[c] ELSE c

UpperChar(c) == IF c \in DOMAIN UpperMap THEN UpperMap[c] ELSE c

\* str.lower()
Lower(s) == [i \in 1..Len(s) |-> LowerChar(s[i])]

RECURSIVE LStrip(_)
LStrip(s) ==
  IF s = <<>> THEN <<>>
  ELSE IF Head(s) \in Whitespace THEN LStrip(Tail(s)) ELSE s

RECURSIVE RStrip(_)
RStrip(s) ==
  IF s = <<>> THEN <<>>
  ELSE IF s[Len(s)] \in Whitespace THEN RStrip(SubSeq(s, 1, Len(s) - 1)) ELSE s

\* str.strip()
Strip(s) == RStrip(LStrip(s))

\* str.split(sep) for a one-character separator: the pieces between the
\* separators, empty pieces kept.
RECURSIVE SplitOn(_, _, _)
SplitOn(s, sep, cur) ==
  IF s = <<>> THEN <<cur>>
  ELSE IF Head(s) = sep THEN <<cur>> \o SplitOn(Tail(s), sep, <<>>)
  ELSE SplitOn(Tail(s), sep, Append(cur, Head(s)))

\* str.split(): the maximal runs of non-whitespace characters.
RECURSIVE SplitWords(_, _)
SplitWords(s, cur) ==
  IF s = <<>> THEN (IF cur = <<>> THEN <<>> ELSE <<cur>>)
  ELSE IF Head(s) \in Whitespace
       THEN (IF cur = <<>> THEN <<>> ELSE <<cur>>) \o SplitWords(Tail(s), <<>>)
       ELSE SplitWords(Tail(s), Append(cur, Head(s)))

RECURSIVE SelectNonEmpty(_)
SelectNonEmpty(ss) ==
  IF ss = <<>> THEN <<>>
  ELSE IF Head(ss) = <<>> THEN SelectNonEmpty(Tail(ss))
  ELSE <<Head(ss)>> \o SelectNonEmpty(Tail(ss))

Range(f) == {f[i] : i \in DOMAIN f}

\* ------------------------------------------------------------- file paths
CSV_HEADERS == <<"ref_no", "name", "roll_no", "department", "batch",
                 "category", "event", "date", "time">>

NoDataFile == [exists |-> FALSE, header |-> <<>>, rows |-> <<>>]

\* ------------------------------------------------------------- password
DefaultPassword == <<"A", "d", "m", "i", "n", "@", "2", "0", "2", "5">>

MinPasswordLen == 8

\* secrets.token_hex(32): a fresh random salt, one of these
Salts == {"salt1", "salt2"}

NoAuthFile == [exists |-> FALSE, hash |-> <<>>, salt |-> "", changed |-> FALSE]

\* _hash_password(password, salt): PBKDF2-HMAC-SHA256 taken as collision free,
\* so the key stands for the pair it was derived from.
HashPassword(password, salt) == <<"pbkdf2_sha256", password, salt>>

\* _verify_password(password, stored_hash, salt)
VerifyPassword(password, stored_hash, salt) ==
  HashPassword(password, salt) = stored_hash

\* faulty variant, not what the program does: the default password is written back at every call
LoadAuthRecreate(af, salt) ==
  [exists |-> TRUE, hash |-> HashPassword(DefaultPassword, salt),
   salt |-> salt, changed |-> FALSE]

\* load_auth(): the auth file as it is after the call, which is also the
\* value returned.  `salt` is the random salt drawn if the file is created.
LoadAuth(af, salt) ==
  IF ~af.exists
  THEN [exists |-> TRUE, hash |-> HashPassword(DefaultPassword, salt),
        salt |-> salt, changed |-> FALSE]
  ELSE af

\* check_password(password)
CheckPassword(af, password, salt) ==
  LET auth == LoadAuth(af, salt)
  IN  VerifyPassword(password, auth.hash, auth.salt)

\* save_password(new_password): the auth file after the call.
SavePassword(af, new_password, salt, salt0) ==
  LET auth == LoadAuth(af, salt0)
  IN  [auth EXCEPT !.hash = HashPassword(new_password, salt),
                   !.salt = salt, !.changed = TRUE]

\* ------------------------------------------------------------- config
Today == <<"2025-01-01">>

CFG_KEYS == {"event_name", "event_date", "event_venue", "event_topic",
             "organizer", "categories", "student_cats", "app_url",
             "inv_theme", "logo1_b64", "logo2_b64", "logo3_b64"}

Participant == <<"P","a","r","t","i","c","i","p","a","n","t">>
Teacher     == <<"T","e","a","c","h","e","r">>
GuestSpeaker == <<"G","u","e","s","t"," ","S","p","e","a","k","e","r">>

\* "Participant,Teacher,Speaker,Management"
DefaultCategories ==
  Participant \o <<",">> \o Teacher \o <<",">>
    \o <<"S","p","e","a","k","e","r">> \o <<",">>
    \o <<"M","a","n","a","g","e","m","e","n","t">>

CFG_DEFAULTS ==
  [event_name   |-> <<"Certificate of Participation">>,
   event_date   |-> Today,
   event_venue  |-> <<>>,
   event_topic  |-> <<>>,
   organizer    |-> <<>>,
   categories   |-> DefaultCategories,
   student_cats |-> Participant,
   app_url      |-> <<>>,
   inv_theme    |-> <<"royal_gold">>,
   logo1_b64    |-> <<>>,
   logo2_b64    |-> <<>>,
   logo3_b64    |-> <<>>]

NoConfigFile == [exists |-> FALSE, saved |-> <<>>]

\* an exception that leaves the function
Raised == [error |-> "exception"]

\* json.load(f) and out.update(saved) go through: the file holds a JSON
\* object, kept in the field `saved`
Parsable(cf) == "saved" \in DOMAIN cf

\* faulty variant, not what the program does: no try around the parsing
LoadConfigNoTry(cf) ==
  IF ~cf.exists THEN CFG_DEFAULTS
  ELSE IF ~Parsable(cf) THEN Raised
  ELSE [k \in (DOMAIN CFG_DEFAULTS) \cup (DOMAIN cf.saved) |->
          IF k \in DOMAIN cf.saved THEN cf.saved[k] ELSE CFG_DEFAULTS[k]]

\* load_config(): defaults overridden by whatever the file holds.
LoadConfig(cf) ==
  IF ~cf.exists THEN CFG_DEFAULTS
  ELSE IF ~Parsable(cf) THEN CFG_DEFAULTS
  ELSE [k \in (DOMAIN CFG_DEFAULTS) \cup (DOMAIN cf.saved) |->
          IF k \in DOMAIN cf.saved THEN cf.saved[k] ELSE CFG_DEFAULTS[k]]

\* save_config(cfg)
SaveConfig(cfg) == [exists |-> TRUE, saved |-> cfg]

\* ------------------------------------------------------------- CSV database
\* Reading a file opened without newline="" translates "\r\n" and "\r"
\* to "\n", also inside quoted fields.
RECURSIVE UniversalNewlines(_)
UniversalNewlines(s) ==
  IF s = <<>> THEN <<>>
  ELSE IF Head(s) = "\r"
       THEN IF Len(s) > 1 /\ s[2] = "\n"
            THEN <<"\n">> \o UniversalNewlines(Tail(Tail(s)))
            ELSE <<"\n">> \o UniversalNewlines(Tail(s))
       ELSE <<Head(s)>> \o UniversalNewlines(Tail(s))

NoneValue == <<"<None>">>
RestKey == "<restkey>"

LastIndexOf(h, k) == CHOOSE i \in 1..Len(h) :
                        h[i] = k /\ \A j \in (i+1)..Len(h) : h[j] # k

\* csv.DictReader: one dict per row, keyed by the header line.
DictRow(h, row) ==
  [k \in Range(h) \cup (IF Len(row) > Len(h) THEN {RestKey} ELSE {}) |->
     IF k = RestKey /\ k \notin Range(h)
     THEN <<"<rest>", Len(row) - Len(h)>>
     ELSE IF LastIndexOf(h, k) <= Len(row)
          THEN UniversalNewlines(row[LastIndexOf(h, k)])
          ELSE NoneValue]

\* open(DATA_FILE,"r",encoding="utf-8") and csv.DictReader go through: the
\* file holds text, kept as `header` and `rows`
Readable(df) == "rows" \in DOMAIN df

\* load_registrations()
LoadRegistrations(df) ==
  IF ~df.exists THEN <<>>
  ELSE IF ~Readable(df) THEN <<>>
  ELSE [i \in 1..Len(df.rows) |-> DictRow(df.header, df.rows[i])]

\* the row DictWriter writes for rec: {k: rec.get(k,"") for k in CSV_HEADERS}
CsvRow(rec) ==
  [i \in 1..Len(CSV_HEADERS) |->
     IF CSV_HEADERS[i] \in DOMAIN rec THEN rec[CSV_HEADERS[i]] ELSE <<>>]

\* faulty variant, not what the program does: the file opened with "w",
\* so that the earlier rows are lost
SaveRegistrationOverwrite(df, rec) ==
  [exists |-> TRUE, header |-> CSV_HEADERS, rows |-> <<CsvRow(rec)>>]

\* faulty variant, not what the program does: a row is written only if
\* its reference code is not stored yet
SaveRegistrationUnique(df, rec) ==
  IF ~df.exists
  THEN [exists |-> TRUE, header |-> CSV_HEADERS, rows |-> <<CsvRow(rec)>>]
  ELSE IF \E i \in 1..Len(df.rows) : df.rows[i][1] = CsvRow(rec)[1]
       THEN df
       ELSE [df EXCEPT !.rows = Append(@, CsvRow(rec))]

\* save_registration(rec): the data file after the call.
SaveRegistration(df, rec) ==
  IF ~df.exists
  THEN [exists |-> TRUE, header |-> CSV_HEADERS, rows |-> <<CsvRow(rec)>>]
  ELSE [df EXCEPT !.rows = Append(@, CsvRow(rec))]

\* faulty variant, not what the program does: the file is left in place
ClearRegistrationsKeep(df) == df

\* clear_registrations(): os.remove if the file exists.
ClearRegistrations(df) == NoDataFile

RefWidth == 4

Digits == <<"0", "1", "2", "3", "4", "5", "6", "7", "8", "9">>

RECURSIVE Decimal(_)
Decimal(n) ==
  IF n < 10 THEN <<Digits[n + 1]>>
  ELSE Append(Decimal(n \div 10), Digits[(n % 10) + 1])

RECURSIVE ZeroPad(_, _)
ZeroPad(s, w) == IF Len(s) >= w THEN s ELSE ZeroPad(<<"0">> \o s, w)

\* f"{code}-{count:04d}"
FormatRef(code, count) == code \o <<"-">> \o ZeroPad(Decimal(count), RefWidth)

\* faulty variant, not what the program does: the code is the first letter of the first word only
RefCodeFirstWord(category) ==
  LET words == SplitWords(Strip(category), <<>>)
  IN  IF words # <<>> THEN <<UpperChar(words[1][1])>> ELSE <<"R">>

\* the category code of generate_ref_no
RefCode(category) ==
  LET words == SplitWords(Strip(category), <<>>)
      code  == IF words # <<>> THEN <<UpperChar(words[1][1])>> ELSE <<"R">>
  IN  IF Len(words) > 1 THEN Append(code, UpperChar(words[2][1])) ELSE code

\* faulty variant, not what the program does: the count is the number of
\* rows stored, not one more
GenerateRefNoFromZero(df, category) ==
  FormatRef(RefCode(category), Len(LoadRegistrations(df)))

\* generate_ref_no(category)
GenerateRefNo(df, category) ==
  LET regs  == LoadRegistrations(df)
      count == Len(regs) + 1
  IN  FormatRef(RefCode(category), count)

\* ------------------------------------------------------------- invite phrase
\* x in c: the text x occurs in the text c
Contains(c, x) ==
  \E i \in 0..(Len(c) - Len(x)) : SubSeq(c, i + 1, i + Len(x)) = x

\* the keyword lists of get_invite_phrase with the phrase each returns
PhraseGroups ==
  <<
     [words  |-> {<<"t", "e", "a", "c", "h", "e", "r">>,
                  <<"p", "r", "o", "f", "e", "s", "s", "o", "r">>,
                  <<"f", "a", "c", "u", "l", "t", "y">>,
                  <<"l", "e", "c", "t", "u", "r", "e", "r">>,
                  <<"p", "r", "i", "n", "c", "i", "p", "a", "l">>},
      phrase |-> "You are cordially invited as"],
     [words  |-> {<<"s", "p", "e", "a", "k", "e", "r">>,
                  <<"k", "e", "y", "n", "o", "t", "e">>,
                  <<"p", "r", "e", "s", "e", "n", "t", "e", "r">>},
      phrase |-> "We are honored to welcome"],
     [words  |-> {<<"c", "h", "i", "e", "f">>,
                  <<"d", "i", "r", "e", "c", "t", "o", "r">>,
                  <<"c", "e", "o">>,
                  <<"v", "i", "p">>,
                  <<"g", "u", "e", "s", "t", " ", "o", "f", " ", "h", "o", "n", "o", "r">>},
      phrase |-> "It is our privilege to invite"],
     [words  |-> {<<"j", "u", "d", "g", "e">>,
                  <<"p", "a", "n", "e", "l", "i", "s", "t">>,
                  <<"r", "e", "v", "i", "e", "w", "e", "r">>,
                  <<"e", "v", "a", "l", "u", "a", "t", "o", "r">>},
      phrase |-> "You are invited to serve as"],
     [words  |-> {<<"b", "u", "s", "i", "n", "e", "s", "s">>,
                  <<"e", "n", "t", "r", "e", "p", "r", "e", "n", "e", "u", "r">>,
                  <<"s", "p", "o", "n", "s", "o", "r">>,
                  <<"i", "n", "v", "e", "s", "t", "o", "r">>,
                  <<"i", "n", "d", "u", "s", "t", "r", "y">>},
      phrase |-> "We are pleased to welcome"],
     [words  |-> {<<"m", "a", "n", "a", "g", "e", "m", "e", "n", "t">>,
                  <<"o", "r", "g", "a", "n", "i", "z", "e", "r">>,
                  <<"v", "o", "l", "u", "n", "t", "e", "e", "r">>,
                  <<"c", "o", "o", "r", "d", "i", "n", "a", "t", "o", "r">>},
      phrase |-> "You are invited to participate as"],
     [words  |-> {<<"a", "l", "u", "m", "n", "i">>,
                  <<"g", "r", "a", "d", "u", "a", "t", "e">>,
                  <<"e", "x", "-", "s", "t", "u", "d", "e", "n", "t">>},
      phrase |-> "We warmly welcome our distinguished alumnus"]
  >>

DefaultPhrase == "We are pleased to invite"

\* the if/elif chain over the groups taken in the given order
RECURSIVE PhraseInOrder(_, _)
PhraseInOrder(c, order) ==
  IF order = <<>> THEN DefaultPhrase
  ELSE IF \E x \in PhraseGroups[Head(order)].words : Contains(c, x)
       THEN PhraseGroups[Head(order)].phrase
       ELSE PhraseInOrder(c, Tail(order))

\* faulty variant, not what the program does: the speaker keywords are
\* tested before the teacher keywords
GetInvitePhraseSpeakerFirst(category) ==
  PhraseInOrder(Lower(category), <<2, 1, 3, 4, 5, 6, 7>>)

\* get_invite_phrase(category)
GetInvitePhrase(category) ==
  PhraseInOrder(Lower(category), <<1, 2, 3, 4, 5, 6, 7>>)

\* ------------------------------------------------------------- backup
ReadmeText == <<"auth.json excluded for security.">>

\* faulty variant, not what the program does: the auth file is archived too
CreateBackupAll(df, cf, af) ==
  [n \in {"README.txt"} \cup (IF df.exists THEN {"registrations.csv"} ELSE {})
        \cup (IF cf.exists THEN {"config.json"} ELSE {})
        \cup (IF af.exists THEN {"auth.json"} ELSE {}) |->
     CASE n = "registrations.csv" -> [header |-> df.header, rows |-> df.rows]
       [] n = "config.json"       -> cf.saved
       [] n = "auth.json"         -> af.hash
       [] OTHER                   -> ReadmeText]

\* create_backup(): the entries of the ZIP archive, by file name (each under
\* the folder backup_<timestamp>/), with the content of each
CreateBackup(df, cf, af) ==
  [n \in {"README.txt"} \cup (IF df.exists THEN {"registrations.csv"} ELSE {})
        \cup (IF cf.exists THEN {"config.json"} ELSE {}) |->
     CASE n = "registrations.csv" -> [header |-> df.header, rows |-> df.rows]
       [] n = "config.json"       -> cf.saved
       [] OTHER                   -> ReadmeText]

\* faulty variant, not what the program does: the day's file is rewritten
\* at every call
AutoBackupDirAlways(dir, d, df, cf, af) ==
  [x \in DOMAIN dir \cup {d} |->
     IF x = d THEN CreateBackup(df, cf, af) ELSE dir[x]]

\* auto_backup(): the backups folder after the call on day d
AutoBackupDir(dir, d, df, cf, af) ==
  IF d \in DOMAIN dir THEN dir
  ELSE [x \in DOMAIN dir \cup {d} |->
          IF x = d THEN CreateBackup(df, cf, af) ELSE dir[x]]

\* ------------------------------------------------------------- inputs
\* what the users type or pick; each set is small and holds the cases the
\* handlers distinguish (blank, padded with spaces, with an embedded "\r")
DeptInputs  == {<<"C", "S", " ">>}
RollInputs  == {<<" ">>, <<"r", "7">>}
BatchInputs == {<<>>, <<"2", "2">>}

Pw8 == <<"n", "e", "w", "p", "a", "s", "s", "1">>
Pw7 == <<"s", "h", "o", "r", "t", "e", "r">>
PasswordInputs == {DefaultPassword, Pw8, Pw7}

\* "Guest Speaker,participant"
AltCategories == GuestSpeaker \o <<",">> \o Lower(Participant)
\* "PARTICIPANT, guest speaker"
AltStudentCats ==
  <<"P","A","R","T","I","C","I","P","A","N","T">> \o <<",", " ">>
    \o Lower(GuestSpeaker)

EditKeys == {"event_name", "student_cats_input"}

SettingChoices(k) ==
  CASE k = "event_name"         -> {CFG_DEFAULTS.event_name, <<"Tech Fest">>}
    [] k = "student_cats_input" -> {Participant, AltStudentCats}

\* the categories the model lets a user pick, when they are configured
CategoryChoices == {Participant, Teacher, GuestSpeaker, Lower(Participant)}

ConfirmInputs == {"DELETE", "delete"}

\* ------------------------------------------------------------- state
VARIABLES
  dataFile,         \* registrations.csv
  configFile,       \* config.json
  authFile,         \* auth.json
  started,          \* per session: st.session_state has been initialised
  admin_auth,       \* st.session_state.admin_auth
  form_submitted,   \* st.session_state.form_submitted
  last_submission,  \* st.session_state.last_submission
  invitation_png,   \* st.session_state.invitation_png
  sess_cfg,         \* the twelve settings held in st.session_state
  template_bytes,   \* st.session_state.template_bytes (uploaded or not)
  pc,               \* per session: where its running handler stands
  local,            \* per session: the handler's local variables
  ui,               \* what the last script run answered
  rowInfo,          \* history: for each stored row, how it was added
  since,            \* history: store writes since the session read the count
  backupDir,        \* backups/: for each day that has one, its backup archive
  day               \* the calendar day of the server clock

vars == <<dataFile, configFile, authFile, started, admin_auth, form_submitted,
          last_submission, invitation_png, sess_cfg, template_bytes, pc,
          local, ui, rowInfo, since, backupDir, day>>

files    == <<dataFile, configFile, authFile>>
formSess == <<form_submitted, last_submission, invitation_png>>

EmptyRec == <<>>
NoPng    == [set |-> FALSE, rec |-> <<>>, theme |-> <<>>]
NoLocal  == <<>>

\* the SESS dictionary: the settings a session starts with
SessFromConfig(cfg) ==
  [k \in {"event_name", "event_date", "event_venue", "event_topic",
          "organizer", "categories", "student_cats_input", "app_url",
          "inv_theme", "logo1_b64", "logo2_b64", "logo3_b64"} |->
     IF k = "student_cats_input" THEN cfg["student_cats"] ELSE cfg[k]]

\* no session has connected yet
InitSessions ==
  /\ started         = [s \in Sessions |-> FALSE]
  /\ admin_auth      = [s \in Sessions |-> FALSE]
  /\ form_submitted  = [s \in Sessions |-> FALSE]
  /\ last_submission = [s \in Sessions |-> EmptyRec]
  /\ invitation_png  = [s \in Sessions |-> NoPng]
  /\ sess_cfg        = [s \in Sessions |-> <<>>]
  /\ template_bytes  = [s \in Sessions |-> FALSE]
  /\ pc              = [s \in Sessions |-> "idle"]
  /\ local           = [s \in Sessions |-> NoLocal]
  /\ ui              = [sess |-> "", op |-> "init", msg |-> <<>>]
  /\ rowInfo         = <<>>
  /\ since           = [s \in Sessions |-> 0]
  /\ backupDir       = <<>>
  /\ day             = 1

\* a fresh deployment: none of the three files exists
Init ==
  /\ dataFile   = NoDataFile
  /\ configFile = NoConfigFile
  /\ authFile   = NoAuthFile
  /\ InitSessions

Say(s, op, msg) == ui' = [sess |-> s, op |-> op, msg |-> msg]

\* history bookkeeping of a write to the registration file
SinceCap == 3
Bump(n) == IF n < SinceCap THEN n + 1 ELSE n
\* (counted for the sessions inside a handler; `done` are those leaving it)
StoreWritten(done) ==
  since' = [t \in Sessions |->
              IF pc[t] \in {"idle", "d_rerun"} \/ t \in done THEN 0
              ELSE Bump(since[t])]

\* `_cfg = load_config(); auto_backup()` at the top of every script run
AutoBackup ==
  /\ backupDir' = AutoBackupDir(backupDir, day, dataFile, configFile, authFile)
  /\ day' = day

\* a later step of a script run already counted, or no script run at all
NoBackup == UNCHANGED <<backupDir, day>>

\* ------------------------------------------------------------- startup
\* the first script run of a session: SESS is copied into st.session_state
Start(s) ==
  /\ ~started[s]
  /\ started' = [started EXCEPT ![s] = TRUE]
  /\ sess_cfg' = [sess_cfg EXCEPT ![s] = SessFromConfig(LoadConfig(configFile))]
  /\ Say(s, "start", <<>>)
  /\ UNCHANGED <<files, admin_auth, formSess, template_bytes, pc, local,
                 rowInfo, since>>
  /\ AutoBackup

\* the server process restarts: every session is gone, the files stay
Restart ==
  /\ \E s \in Sessions : started[s]
  /\ started'         = [s \in Sessions |-> FALSE]
  /\ admin_auth'      = [s \in Sessions |-> FALSE]
  /\ form_submitted'  = [s \in Sessions |-> FALSE]
  /\ last_submission' = [s \in Sessions |-> EmptyRec]
  /\ invitation_png'  = [s \in Sessions |-> NoPng]
  /\ sess_cfg'        = [s \in Sessions |-> <<>>]
  /\ template_bytes'  = [s \in Sessions |-> FALSE]
  /\ pc'              = [s \in Sessions |-> "idle"]
  /\ local'           = [s \in Sessions |-> NoLocal]
  /\ since'           = [s \in Sessions |-> 0]
  /\ Say("", "restart", <<>>)
  /\ UNCHANGED <<files, rowInfo>>
  /\ NoBackup

\* ------------------------------------------------------------- form page
\* cats = [c.strip() for c in cfg["categories"].split(",") if c.strip()]
CategoryList(text) ==
  LET parts == SplitOn(text, ",", <<>>)
  IN  SelectNonEmpty([i \in 1..Len(parts) |-> Strip(parts[i])])

\* s_cats = [c.strip().lower() for c in cfg["student_cats"].split(",")]
StudentCats(cfg) ==
  LET parts == SplitOn(cfg["student_cats"], ",", <<>>)
  IN  [i \in 1..Len(parts) |-> Lower(Strip(parts[i]))]

\* is_stud = category.lower() in s_cats
IsStudent(category, cfg) == Lower(category) \in Range(StudentCats(cfg))

\* the entries of the selectbox the model lets the user pick
Choices(cats) == Range(cats) \cap CategoryChoices

\* faulty variant, not what the program does: the batch is not asked for
MissingFieldsNoBatch(n, r, b, is_stud) ==
  (IF n = <<>> THEN <<"Full Name">> ELSE <<>>)
    \o (IF is_stud /\ r = <<>> THEN <<"Roll No">> ELSE <<>>)

\* the `missing` list of the Submit handler
MissingFields(n, r, b, is_stud) ==
  (IF n = <<>> THEN <<"Full Name">> ELSE <<>>)
    \o (IF is_stud /\ r = <<>> THEN <<"Roll No">> ELSE <<>>)
    \o (IF is_stud /\ b = <<>> THEN <<"Batch">> ELSE <<>>)

Clock == <<"10:00:00">>

\* now.strftime("%Y-%m-%d") on the d-th day of the model
DateOf(d) == IF d = 1 THEN Today ELSE <<"2025-01-01", "+">> \o Decimal(d - 1)

\* the rec dictionary both handlers build
NewRecord(ref_no, n, r, d, b, category, event) ==
  [ref_no |-> ref_no, name |-> n, roll_no |-> r, department |-> d,
   batch |-> b, category |-> category, event |-> event,
   date |-> DateOf(day), time |-> Clock]

\* faulty variant, not what the program does: no card is produced
GenerateInvitationCardNone(rec, cfg) == NoPng

\* generate_invitation_card(rec, cfg, l1, l2, l3): the card shows the record
\* in the theme of cfg
GenerateInvitationCard(rec, cfg) ==
  [set |-> TRUE, rec |-> rec, theme |-> cfg["inv_theme"]]

RowCount == IF dataFile.exists THEN Len(dataFile.rows) ELSE 0
Pending  == {t \in Sessions : pc[t] \in {"gotref", "m_gotref"}}
\* the model stops taking registrations at cap rows
RoomFor(cap) == RowCount + Cardinality(Pending) < cap

\* the confirmation view is shown instead of the form
Confirmation(s) == form_submitted[s] /\ invitation_png[s].set

\* Submit Registration, up to and including generate_ref_no
SubmitClick(s, name, dept, category, rollno, batch_in) ==
  LET cfg     == LoadConfig(configFile)
      is_stud == IsStudent(category, cfg)
      batch   == IF is_stud THEN batch_in ELSE <<>>
      n       == Strip(name)
      r       == Strip(rollno)
      d       == Strip(dept)
      b       == IF batch # <<>> THEN Strip(batch) ELSE <<>>
      missing == MissingFields(n, r, b, is_stud)
  IN
  /\ started[s] /\ pc[s] = "idle" /\ ~Confirmation(s)
  /\ category \in Choices(CategoryList(cfg["categories"]))
  /\ IF missing # <<>>
     THEN /\ Say(s, "submit_rejected", missing)
          /\ UNCHANGED <<pc, local, since>>
     ELSE /\ pc' = [pc EXCEPT ![s] = "gotref"]
          /\ local' = [local EXCEPT ![s] =
                 [rec |-> NewRecord(GenerateRefNo(dataFile, category),
                                    n, r, d, b, category, cfg["event_name"]),
                  cfg |-> cfg, is_stud |-> is_stud, png |-> NoPng]]
          /\ since' = [since EXCEPT ![s] = 0]
          /\ Say(s, "submit", <<>>)
  /\ UNCHANGED <<files, started, admin_auth, formSess, sess_cfg,
                 template_bytes, rowInfo>>
  /\ AutoBackup

\* save_registration(rec)
SubmitSave(s) ==
  /\ pc[s] = "gotref"
  /\ dataFile' = SaveRegistration(dataFile, local[s].rec)
  /\ rowInfo' = Append(rowInfo, [via |-> "form", stale |-> since[s] > 0,
         student |-> IsStudent(local[s].rec.category, LoadConfig(configFile))])
  /\ StoreWritten({})
  /\ pc' = [pc EXCEPT ![s] = "saved"]
  /\ Say(s, "submit_saved", <<>>)
  /\ UNCHANGED <<configFile, authFile, started, admin_auth, formSess,
                 sess_cfg, template_bytes, local>>
  /\ NoBackup

\* inv_png = generate_invitation_card(rec, cfg, l1b, l2b, l3b)
SubmitRender(s) ==
  /\ pc[s] = "saved"
  /\ local' = [local EXCEPT ![s].png =
                 GenerateInvitationCard(local[s].rec, local[s].cfg)]
  /\ pc' = [pc EXCEPT ![s] = "rendered"]
  /\ Say(s, "submit_rendered", <<>>)
  /\ UNCHANGED <<files, started, admin_auth, formSess, sess_cfg,
                 template_bytes, rowInfo, since>>
  /\ NoBackup

\* the three session assignments and st.rerun()
SubmitFinish(s) ==
  /\ pc[s] = "rendered"
  /\ form_submitted'  = [form_submitted EXCEPT ![s] = TRUE]
  /\ last_submission' = [last_submission EXCEPT ![s] = local[s].rec]
  /\ invitation_png'  = [invitation_png EXCEPT ![s] = local[s].png]
  /\ pc' = [pc EXCEPT ![s] = "idle"]
  /\ local' = [local EXCEPT ![s] = NoLocal]
  /\ since' = [since EXCEPT ![s] = 0]
  /\ Say(s, "confirmation", <<>>)
  /\ UNCHANGED <<files, started, admin_auth, sess_cfg, template_bytes,
                 rowInfo>>
  /\ NoBackup

\* New Registration
NewRegistration(s) ==
  /\ started[s] /\ pc[s] = "idle" /\ Confirmation(s)
  /\ form_submitted'  = [form_submitted EXCEPT ![s] = FALSE]
  /\ last_submission' = [last_submission EXCEPT ![s] = EmptyRec]
  /\ invitation_png'  = [invitation_png EXCEPT ![s] = NoPng]
  /\ Say(s, "new_registration", <<>>)
  /\ UNCHANGED <<files, started, admin_auth, sess_cfg, template_bytes, pc,
                 local, rowInfo, since>>
  /\ AutoBackup

\* ------------------------------------------------------------- routing
\* the query strings of the model: ?page=form, ?page=admin, ?page=Form, none
QueryInputs == {[page |-> "form"], [page |-> "admin"], [page |-> "Form"], <<>>}

\* page = qp.get("page","admin")
Page(qp) == IF "page" \in DOMAIN qp THEN qp["page"] ELSE "admin"

\* faulty variant, not what the program does: the form page is shown only
\* to a session that is not logged in as administrator
ViewAdminFirst(s, qp) ==
  IF Page(qp) = "form" /\ ~admin_auth[s]
  THEN IF Confirmation(s) THEN "confirmation" ELSE "form"
  ELSE IF ~admin_auth[s] THEN "login" ELSE "dashboard"

\* what a script run draws: `if page == "form": ... st.stop()`, then the
\* admin page, which stops after the login form while admin_auth is false
View(s, qp) ==
  IF Page(qp) = "form"
  THEN IF Confirmation(s) THEN "confirmation" ELSE "form"
  ELSE IF ~admin_auth[s] THEN "login" ELSE "dashboard"

\* a script run in which no button is pressed: the page is opened or redrawn
Visit(s, qp) ==
  /\ started[s] /\ pc[s] = "idle"
  /\ Say(s, "view", <<Page(qp), View(s, qp)>>)
  /\ UNCHANGED <<files, started, admin_auth, formSess, sess_cfg,
                 template_bytes, pc, local, rowInfo, since>>
  /\ AutoBackup

\* ------------------------------------------------------------- admin page
\* faulty variant, not what the program does: the dashboard is drawn without looking at admin_auth
AuthenticatedAlways(s) == TRUE

\* `if not st.session_state.admin_auth: ... st.stop()`: what lies below the
\* login form runs only for an authenticated session
Authenticated(s) == admin_auth[s]

AdminRun(s) == started[s] /\ pc[s] = "idle" /\ Authenticated(s)

\* Login
Login(s, pwd, salt) ==
  /\ started[s] /\ pc[s] = "idle" /\ ~admin_auth[s]
  /\ authFile' = LoadAuth(authFile, salt)
  /\ IF CheckPassword(authFile, pwd, salt)
     THEN /\ admin_auth' = [admin_auth EXCEPT ![s] = TRUE]
          /\ Say(s, "login", <<"ok">>)
     ELSE /\ UNCHANGED admin_auth
          /\ Say(s, "login", <<"Wrong password!">>)
  /\ UNCHANGED <<dataFile, configFile, started, formSess, sess_cfg,
                 template_bytes, pc, local, rowInfo, since>>
  /\ AutoBackup

\* Logout
Logout(s) ==
  /\ AdminRun(s)
  /\ admin_auth' = [admin_auth EXCEPT ![s] = FALSE]
  /\ Say(s, "logout", <<>>)
  /\ UNCHANGED <<files, started, formSess, sess_cfg, template_bytes, pc,
                 local, rowInfo, since>>
  /\ AutoBackup

\* a sidebar text input is changed: the run assigns it to the session
EditSetting(s, k, v) ==
  /\ AdminRun(s)
  /\ sess_cfg[s][k] # v
  /\ sess_cfg' = [sess_cfg EXCEPT ![s][k] = v]
  /\ Say(s, "edit_setting", <<>>)
  /\ UNCHANGED <<files, started, admin_auth, formSess, template_bytes, pc,
                 local, rowInfo, since>>
  /\ AutoBackup

\* faulty variant, not what the program does: the student categories are
\* saved from the categories box
SettingsToSaveMixed(sc) ==
  [k \in CFG_KEYS |-> IF k = "student_cats" THEN sc["categories"] ELSE sc[k]]

\* save_all_settings(): the dictionary handed to save_config
SettingsToSave(sc) ==
  [k \in CFG_KEYS |-> IF k = "student_cats" THEN sc["student_cats_input"]
                      ELSE sc[k]]

\* Save All Settings (sidebar) and Save Theme (tab 3)
SaveAllSettings(s) ==
  /\ AdminRun(s)
  /\ configFile' = SaveConfig(SettingsToSave(sess_cfg[s]))
  /\ Say(s, "save_settings", <<"Saved!">>)
  /\ UNCHANGED <<dataFile, authFile, started, admin_auth, formSess, sess_cfg,
                 template_bytes, pc, local, rowInfo, since>>
  /\ AutoBackup

PwUpdated == "Password updated securely!"

\* faulty variant, not what the program does: the length of the new password is not tested
ChangeResultNoLength(af, cur_p, new_p, cnf_p, salt) ==
  IF ~CheckPassword(af, cur_p, salt) THEN "Wrong current password!"
  ELSE IF new_p # cnf_p THEN "Passwords don't match!"
  ELSE IF new_p = cur_p THEN "Same as current!"
  ELSE PwUpdated

\* the if/elif chain of the Update button
ChangeResult(af, cur_p, new_p, cnf_p, salt) ==
  IF ~CheckPassword(af, cur_p, salt) THEN "Wrong current password!"
  ELSE IF Len(new_p) < MinPasswordLen THEN "Min 8 characters!"
  ELSE IF new_p # cnf_p THEN "Passwords don't match!"
  ELSE IF new_p = cur_p THEN "Same as current!"
  ELSE PwUpdated

\* Change Password: Update
ChangePassword(s, cur_p, new_p, cnf_p, salt) ==
  LET reply == ChangeResult(authFile, cur_p, new_p, cnf_p, salt)
  IN
  /\ AdminRun(s)
  /\ authFile' = IF reply = PwUpdated
                 THEN SavePassword(authFile, new_p, salt, salt)
                 ELSE LoadAuth(authFile, salt)
  /\ Say(s, "change_password", << reply >>)
  /\ UNCHANGED <<dataFile, configFile, started, admin_auth, formSess,
                 sess_cfg, template_bytes, pc, local, rowInfo, since>>
  /\ AutoBackup

\* Manual Entry: Add, up to and including generate_ref_no
ManualClick(s, mn, md, mr, mb, mc) ==
  /\ AdminRun(s)
  /\ mc \in Choices(CategoryList(sess_cfg[s]["categories"]))
  /\ IF Strip(mn) # <<>>
     THEN /\ pc' = [pc EXCEPT ![s] = "m_gotref"]
          /\ local' = [local EXCEPT ![s] =
                 [rec |-> NewRecord(GenerateRefNo(dataFile, mc), Strip(mn),
                                    Strip(mr), Strip(md), Strip(mb), mc,
                                    sess_cfg[s]["event_name"])]]
          /\ since' = [since EXCEPT ![s] = 0]
          /\ Say(s, "manual_entry", <<>>)
     ELSE /\ Say(s, "manual_rejected", <<"Name required!">>)
          /\ UNCHANGED <<pc, local, since>>
  /\ UNCHANGED <<files, started, admin_auth, formSess, sess_cfg,
                 template_bytes, rowInfo>>
  /\ AutoBackup

\* Manual Entry: save_registration and the success message
ManualSave(s) ==
  /\ pc[s] = "m_gotref"
  /\ dataFile' = SaveRegistration(dataFile, local[s].rec)
  /\ rowInfo' = Append(rowInfo, [via |-> "manual", stale |-> since[s] > 0,
         student |-> IsStudent(local[s].rec.category, LoadConfig(configFile))])
  /\ StoreWritten({s})
  /\ pc' = [pc EXCEPT ![s] = "idle"]
  /\ local' = [local EXCEPT ![s] = NoLocal]
  /\ Say(s, "manual_saved", <<>>)
  /\ UNCHANGED <<configFile, authFile, started, admin_auth, formSess,
                 sess_cfg, template_bytes>>
  /\ NoBackup

\* tab 2: Clear All (the button is drawn only when there are registrations)
ClearAll(s) ==
  /\ AdminRun(s)
  /\ LoadRegistrations(dataFile) # <<>>
  /\ dataFile' = ClearRegistrations(dataFile)
  /\ rowInfo' = <<>>
  /\ StoreWritten({})
  /\ Say(s, "clear_all", <<"Cleared!">>)
  /\ UNCHANGED <<configFile, authFile, started, admin_auth, formSess,
                 sess_cfg, template_bytes, pc, local>>
  /\ AutoBackup

\* tab 6: Delete All, which acts only when the text typed is DELETE:
\* bak = create_backup(); clear_registrations(); the warning and the
\* Pre-delete Backup button are drawn, and st.rerun() is called.  The message
\* lists the archives the page offers for download.
DeleteAll(s, conf) ==
  /\ AdminRun(s)
  /\ IF conf = "DELETE"
     THEN /\ dataFile' = ClearRegistrations(dataFile)
          /\ rowInfo' = <<>>
          /\ StoreWritten({})
          /\ pc' = [pc EXCEPT ![s] = "d_rerun"]
          /\ local' = [local EXCEPT ![s] =
                 [bak |-> CreateBackup(dataFile, configFile, authFile)]]
          /\ Say(s, "delete_all",
                 <<CreateBackup(dataFile, configFile, authFile)>>)
     ELSE /\ Say(s, "delete_all",
                 <<CreateBackup(dataFile, configFile, authFile)>>)
          /\ UNCHANGED <<dataFile, rowInfo, since, pc, local>>
  /\ UNCHANGED <<configFile, authFile, started, admin_auth, formSess,
                 sess_cfg, template_bytes>>
  /\ AutoBackup

\* the script run that st.rerun() starts: the Delete All button is no longer
\* pressed, so its block is not run and tab 6 is drawn as usual, with the
\* Download Backup ZIP button only
DeleteRerun(s) ==
  /\ pc[s] = "d_rerun"
  /\ pc' = [pc EXCEPT ![s] = "idle"]
  /\ local' = [local EXCEPT ![s] = NoLocal]
  /\ since' = [since EXCEPT ![s] = 0]
  /\ Say(s, "delete_rerun", <<CreateBackup(dataFile, configFile, authFile)>>)
  /\ UNCHANGED <<files, started, admin_auth, formSess, sess_cfg,
                 template_bytes, rowInfo>>
  /\ AutoBackup

\* tab 4: a certificate template is uploaded
UploadTemplate(s) ==
  /\ AdminRun(s)
  /\ ~template_bytes[s]
  /\ template_bytes' = [template_bytes EXCEPT ![s] = TRUE]
  /\ Say(s, "upload_template", <<>>)
  /\ UNCHANGED <<files, started, admin_auth, formSess, sess_cfg, pc, local,
                 rowInfo, since>>
  /\ AutoBackup

\* rec.get("category","Other")
CategoryOrOther(rec) ==
  IF "category" \in DOMAIN rec THEN rec["category"] ELSE <<"Other">>

\* the names zf.writestr is called with for one registration
EntryNames(rec, do_png, do_pdf) ==
  (IF do_png
   THEN << <<"PNG/">> \o CategoryOrOther(rec) \o <<"/">> \o rec["name"]
             \o <<".png">> >>
   ELSE <<>>)
  \o
  (IF do_pdf
   THEN << <<"PDF/">> \o CategoryOrOther(rec) \o <<"/">> \o rec["name"]
             \o <<".pdf">> >>
   ELSE <<>>)

\* the entries of the archive, in the order they are written
RECURSIVE ZipEntries(_, _, _)
ZipEntries(regs, do_png, do_pdf) ==
  IF regs = <<>> THEN <<>>
  ELSE EntryNames(Head(regs), do_png, do_pdf)
         \o ZipEntries(Tail(regs), do_png, do_pdf)

\* tab 5: Generate All, with the PNG and PDF boxes as given.  The message is
\* the number reported done and the entry names of the archive offered.
BulkGenerate(s, do_png, do_pdf) ==
  /\ AdminRun(s)
  /\ template_bytes[s]
  /\ LoadRegistrations(dataFile) # <<>>
  /\ \A i \in 1..Len(LoadRegistrations(dataFile)) :
       "name" \in DOMAIN LoadRegistrations(dataFile)[i]
  /\ Say(s, "bulk_generate",
         <<Decimal(Len(LoadRegistrations(dataFile))),
           ZipEntries(LoadRegistrations(dataFile), do_png, do_pdf),
           do_png, do_pdf>>)
  /\ UNCHANGED <<files, started, admin_auth, formSess, sess_cfg,
                 template_bytes, pc, local, rowInfo, since>>
  /\ AutoBackup

\* tab 6: Download Backup ZIP
BackupDownload(s) ==
  /\ AdminRun(s)
  /\ Say(s, "backup_download", <<CreateBackup(dataFile, configFile, authFile)>>)
  /\ UNCHANGED <<files, started, admin_auth, formSess, sess_cfg,
                 template_bytes, pc, local, rowInfo, since>>
  /\ AutoBackup

\* ------------------------------------------------------------- restore
\* the CSV files an administrator uploads: one exported from this program
\* and one with other columns
Uploads ==
  { [header |-> CSV_HEADERS,
     rows   |-> << << <<"T","-","0","0","0","1">>, <<"z">>, <<"0","0","7">>,
                      <<"N","A">>, <<>>, Teacher, <<"Old Event">>,
                      Today, Clock >> >>],
    [header |-> <<"name", "ref_no">>,
     rows   |-> << << <<"q">>, <<"X","-","0","0","0","9">> >> >>] }

\* pandas.read_csv: these texts are read as missing values
NaTexts == {<<>>, <<"N","A">>}

IsDigitText(v) == v # <<>> /\ \A i \in 1..Len(v) : v[i] \in Range(Digits)

DigitValue(c) == CHOOSE d \in 0..9 : Digits[d + 1] = c

RECURSIVE ParseNat(_)
ParseNat(v) ==
  IF v = <<>> THEN 0
  ELSE ParseNat(SubSeq(v, 1, Len(v) - 1)) * 10 + DigitValue(v[Len(v)])

\* a column whose values are all whole numbers or missing is read as numbers
NumericColumn(col) ==
  /\ \E i \in 1..Len(col) : col[i] \notin NaTexts
  /\ \A i \in 1..Len(col) : col[i] \in NaTexts \/ IsDigitText(col[i])

\* what DataFrame.to_csv writes for a cell read by pandas.read_csv
PandasCell(col, i) ==
  IF col[i] \in NaTexts THEN <<>>
  ELSE IF NumericColumn(col)
       THEN IF \E j \in 1..Len(col) : col[j] \in NaTexts
            THEN Decimal(ParseNat(col[i])) \o <<".", "0">>
            ELSE Decimal(ParseNat(col[i]))
       ELSE col[i]

\* rdf = pd.read_csv(upl_r); rdf.to_csv(DATA_FILE, index=False)
PandasRewrite(upl) ==
  [exists |-> TRUE,
   header |-> upl.header,
   rows   |-> [i \in 1..Len(upl.rows) |->
                 [j \in 1..Len(upl.header) |->
                    PandasCell([r \in 1..Len(upl.rows) |-> upl.rows[r][j]], i)]]]

\* tab 6: Confirm Restore, with the file upl in the uploader
Restore(s, upl) ==
  /\ AdminRun(s)
  /\ dataFile' = PandasRewrite(upl)
  /\ rowInfo' = [i \in 1..Len(upl.rows) |->
                   [via |-> "restore", stale |-> FALSE, student |-> FALSE]]
  /\ StoreWritten({})
  /\ Say(s, "restore", <<"Restored!", upl>>)
  /\ UNCHANGED <<configFile, authFile, started, admin_auth, formSess,
                 sess_cfg, template_bytes, pc, local>>
  /\ AutoBackup

\* tab 6: a file is put in the uploader and Confirm Restore is not clicked:
\* the number of records found and the first rows are shown
RestorePreview(s, upl) ==
  /\ AdminRun(s)
  /\ Say(s, "restore_preview", <<Decimal(Len(upl.rows)), upl>>)
  /\ UNCHANGED <<files, started, admin_auth, formSess, sess_cfg,
                 template_bytes, pc, local, rowInfo, since>>
  /\ AutoBackup

\* ------------------------------------------------------------- system
\* Submit Registration with the texts typed drawn from the given sets and
\* the category picked among those of cats that the select box offers
FormStepOf(s, names, rolls, batches, cats, cap) ==
  \/ /\ RoomFor(cap)
     /\ \E name \in names, dept \in DeptInputs, rollno \in rolls,
           batch_in \in batches :
          \E category \in cats \cap
                Choices(CategoryList(LoadConfig(configFile)["categories"])) :
             SubmitClick(s, name, dept, category, rollno, batch_in)
  \/ SubmitSave(s)
  \/ SubmitRender(s)
  \/ SubmitFinish(s)
  \/ NewRegistration(s)

FormStep(s, names, rolls, batches, cap) ==
  FormStepOf(s, names, rolls, batches, CategoryChoices, cap)

ManualStep(s, names, rolls, batches, cap) ==
  \/ /\ AdminRun(s) /\ RoomFor(cap)
     /\ \E mn \in names, md \in DeptInputs, mr \in rolls, mb \in batches :
          \E mc \in Choices(CategoryList(sess_cfg[s]["categories"])) :
             ManualClick(s, mn, md, mr, mb, mc)
  \/ ManualSave(s)

\* ------------------------------------------------------------- dashboard
\* The admin page: login, logout and every operation of the dashboard, in
\* two sessions, each input set cut to the cases the handlers tell apart.
MaxAdminRegs == 1

NextAdmin ==
  \/ \E s \in Sessions : Start(s)
  \/ Restart
  \/ \E s \in Sessions : \E pwd \in {DefaultPassword, Pw7} :
       Login(s, pwd, "salt1")
  \/ \E s \in Sessions : Logout(s)
  \/ \E s \in Sessions : ChangePassword(s, DefaultPassword, Pw8, Pw8, "salt1")
  \/ \E s \in Sessions : SaveAllSettings(s)
  \/ \E s \in Sessions :
       ManualStep(s, {<<" ">>, <<"a">>}, {<<" ">>}, {<<>>}, MaxAdminRegs)
  \/ \E s \in Sessions : ClearAll(s)
  \/ \E s \in Sessions : \E conf \in ConfirmInputs : DeleteAll(s, conf)
  \/ \E s \in Sessions : DeleteRerun(s)
  \/ \E s \in Sessions : \E upl \in Uploads : Restore(s, upl)
  \/ \E s \in Sessions : UploadTemplate(s)
  \/ \E s \in Sessions : BulkGenerate(s, TRUE, TRUE)
  \/ \E s \in Sessions : BackupDownload(s)

SpecAdmin == Init /\ [][NextAdmin]_vars

Spec == SpecAdmin

\* ------------------------------------------------------------- bulk
\* Bulk generation over a store filled from the Manual Entry form, the name
\* typed being one of two.
MaxStoreRegs == 2

NextBulk ==
  \/ \E s \in Sessions : Start(s)
  \/ \E s \in Sessions : Login(s, DefaultPassword, "salt1")
  \/ \E s \in Sessions :
       ManualStep(s, {<<"a">>, <<"b">>}, {<<" ">>}, {<<>>}, MaxStoreRegs)
  \/ \E s \in Sessions : UploadTemplate(s)
  \/ \E s \in Sessions : \E do_png \in BOOLEAN, do_pdf \in BOOLEAN :
       BulkGenerate(s, do_png, do_pdf)

SpecBulk == Init /\ [][NextBulk]_vars

\* ------------------------------------------------------------- restoring
\* files as the Download CSV button of tab 2 gives them: one registration
\* of a teacher, and a student of batch 2022 followed by a teacher
Exported ==
  { [header |-> CSV_HEADERS,
     rows   |-> << << <<"T","-","0","0","0","1">>, <<"y">>, <<"r","7">>,
                      <<"C","S">>, <<"b","2">>, Teacher, <<"Old Event">>,
                      Today, Clock >> >>],
    [header |-> CSV_HEADERS,
     rows   |-> << << <<"S","-","0","0","0","1">>, <<"x">>, <<"r","1">>,
                      <<"C","S">>, <<"2","0","2","2">>, <<"Student">>,
                      <<"Old Event">>, Today, Clock >>,
                   << <<"T","-","0","0","0","2">>, <<"y">>, <<"r","2">>,
                      <<"C","S">>, <<>>, Teacher, <<"Old Event">>,
                      Today, Clock >> >>] }

RestoreInputs == Uploads \cup Exported

\* Restore and the registrations made before and after it.
NextRestore ==
  \/ \E s \in Sessions : Start(s)
  \/ \E s \in Sessions : Login(s, DefaultPassword, "salt1")
  \/ \E s \in Sessions :
       ManualStep(s, {<<"a">>}, {<<" ">>}, {<<>>}, MaxStoreRegs)
  \/ \E s \in Sessions : \E upl \in RestoreInputs : RestorePreview(s, upl)
  \/ \E s \in Sessions : \E upl \in RestoreInputs : Restore(s, upl)

SpecRestore == Init /\ [][NextRestore]_vars

\* ------------------------------------------------------------- registration
\* The form page with every input case, in two sessions.  The files start as
\* a fresh deployment leaves them, or as an administrator who logged in and
\* saved the other settings of the model left them.
AltSettings ==
  [SessFromConfig(CFG_DEFAULTS) EXCEPT !["categories"] = AltCategories,
                                       !["student_cats_input"] = AltStudentCats]

InitReg ==
  /\ dataFile = NoDataFile
  /\ \/ configFile = NoConfigFile /\ authFile = NoAuthFile
     \/ /\ configFile = SaveConfig(SettingsToSave(AltSettings))
        /\ authFile = LoadAuth(NoAuthFile, "salt1")
  /\ InitSessions

NextReg ==
  \/ \E s \in Sessions : Start(s)
  \/ Restart
  \/ \E s \in Sessions :
       FormStep(s, {<<" ">>, <<" ", "a", " ">>}, RollInputs, BatchInputs,
                MaxRegs)

SpecReg == InitReg /\ [][NextReg]_vars

\* ------------------------------------------------------------- passwords
\* The login form and the Change Password box, with every password case.
NextAuth ==
  \/ \E s \in Sessions : Start(s)
  \/ Restart
  \/ \E s \in Sessions : \E pwd \in PasswordInputs, salt \in Salts :
       Login(s, pwd, salt)
  \/ \E s \in Sessions : Logout(s)
  \/ \E s \in Sessions :
       \E cur_p \in PasswordInputs, new_p \in PasswordInputs,
          cnf_p \in PasswordInputs, salt \in Salts :
         ChangePassword(s, cur_p, new_p, cnf_p, salt)

SpecAuth == Init /\ [][NextAuth]_vars

\* ------------------------------------------------------------- settings
\* The sidebar settings: edited, saved, and read back by sessions that start
\* later.  The configuration file is absent at first, or is one written by
\* hand that holds two of the twelve keys.
LegacyConfig ==
  SaveConfig([event_name |-> <<"Old Event">>, categories |-> AltCategories])

InitCfg ==
  /\ dataFile = NoDataFile
  /\ configFile \in {NoConfigFile, LegacyConfig}
  /\ authFile = NoAuthFile
  /\ InitSessions

NextCfg ==
  \/ \E s \in Sessions : Start(s)
  \/ Restart
  \/ \E s \in Sessions : Login(s, DefaultPassword, "salt1")
  \/ \E s \in Sessions : \E k \in EditKeys : \E v \in SettingChoices(k) :
       EditSetting(s, k, v)
  \/ \E s \in Sessions : SaveAllSettings(s)

SpecCfg == InitCfg /\ [][NextCfg]_vars

\* ------------------------------------------------------------- CSV functions
\* generate_ref_no, save_registration and clear_registrations called on their
\* own, on every store the calls and a restore can produce, with categories
\* and records of every shape.
MaxCatLen == 3

SeqsUpTo(A, n) == UNION {[1..k -> A] : k \in 0..n}

CategoryInputs ==
  SeqsUpTo({" ", "g"}, MaxCatLen)
    \cup {Participant, GuestSpeaker, <<"\t", "t", "\n", "e", " ", "m">>}

\* a full record, a record lacking most keys, a record with a carriage
\* return inside a field
RecordInputs ==
  { NewRecord(<<"P","-","0","0","0","1">>, <<"a">>, <<"r","7">>, <<"C","S">>,
              <<"2","2">>, Participant, CFG_DEFAULTS.event_name),
    [ref_no |-> <<"T","-","0","0","0","1">>, name |-> <<"b">>],
    NewRecord(<<"T","-","0","0","0","2">>, <<"a","\r","b">>, <<>>, <<>>,
              <<>>, Teacher, CFG_DEFAULTS.event_name) }

CallGenerateRefNo(category) ==
  /\ Say("", "generate_ref_no", <<category, GenerateRefNo(dataFile, category)>>)
  /\ UNCHANGED <<files, started, admin_auth, formSess, sess_cfg,
                 template_bytes, pc, local, rowInfo, since>>
  /\ NoBackup

CallSaveRegistration(rec) ==
  /\ RoomFor(MaxRegs)
  /\ dataFile' = SaveRegistration(dataFile, rec)
  /\ rowInfo' = Append(rowInfo, [via |-> "call", stale |-> FALSE, student |-> FALSE])
  /\ Say("", "save_registration", <<>>)
  /\ UNCHANGED <<configFile, authFile, started, admin_auth, formSess,
                 sess_cfg, template_bytes, pc, local, since>>
  /\ NoBackup

CallClearRegistrations ==
  /\ dataFile' = ClearRegistrations(dataFile)
  /\ rowInfo' = <<>>
  /\ Say("", "clear_registrations", <<>>)
  /\ UNCHANGED <<configFile, authFile, started, admin_auth, formSess,
                 sess_cfg, template_bytes, pc, local, since>>
  /\ NoBackup

InitCsv ==
  /\ \/ dataFile = NoDataFile /\ rowInfo = <<>>
     \/ \E upl \in Uploads :
          /\ dataFile = PandasRewrite(upl)
          /\ rowInfo = [i \in 1..Len(upl.rows) |->
                          [via |-> "restore", stale |-> FALSE, student |-> FALSE]]
  /\ configFile = NoConfigFile
  /\ authFile = NoAuthFile
  /\ started         = [s \in Sessions |-> FALSE]
  /\ admin_auth      = [s \in Sessions |-> FALSE]
  /\ form_submitted  = [s \in Sessions |-> FALSE]
  /\ last_submission = [s \in Sessions |-> EmptyRec]
  /\ invitation_png  = [s \in Sessions |-> NoPng]
  /\ sess_cfg        = [s \in Sessions |-> <<>>]
  /\ template_bytes  = [s \in Sessions |-> FALSE]
  /\ pc              = [s \in Sessions |-> "idle"]
  /\ local           = [s \in Sessions |-> NoLocal]
  /\ ui              = [sess |-> "", op |-> "init", msg |-> <<>>]
  /\ since           = [s \in Sessions |-> 0]
  /\ backupDir       = <<>>
  /\ day             = 1

NextCsv ==
  \/ \E category \in CategoryInputs : CallGenerateRefNo(category)
  \/ \E rec \in RecordInputs : CallSaveRegistration(rec)
  \/ CallClearRegistrations

SpecCsv == InitCsv /\ [][NextCsv]_vars

\* ------------------------------------------------------------- daily backup
\* Script runs of two sessions over several days: pages are opened, people
\* register, the administrator saves the settings, midnight passes.
MaxDays == 2
MaxRegsSmall == 1

\* the server clock passes midnight
NextDay ==
  /\ day < MaxDays
  /\ day' = day + 1
  /\ ui' = [sess |-> "", op |-> "midnight", msg |-> <<>>]
  /\ UNCHANGED <<files, started, admin_auth, formSess, sess_cfg,
                 template_bytes, pc, local, rowInfo, since, backupDir>>

NextBackup ==
  \/ \E s \in Sessions : Start(s)
  \/ NextDay
  \/ \E s \in Sessions :
       FormStep(s, {<<"a">>}, {<<"r", "7">>}, {<<"2", "2">>}, MaxRegsSmall)
  \/ \E s \in Sessions : Login(s, DefaultPassword, "salt1")
  \/ \E s \in Sessions : SaveAllSettings(s)

SpecBackup == Init /\ [][NextBackup]_vars

\* ------------------------------------------------------------- pages
\* The two pages side by side: sessions open either page with any query
\* string, register on the form page, log in and out on the admin page.
NextRoute ==
  \/ \E s \in Sessions : Start(s)
  \/ \E s \in Sessions : \E qp \in QueryInputs : Visit(s, qp)
  \/ \E s \in Sessions :
       FormStep(s, {<<"a">>}, {<<"r", "7">>}, {<<"2", "2">>}, MaxRegsSmall)
  \/ \E s \in Sessions : \E pwd \in {DefaultPassword, Pw7} :
       Login(s, pwd, "salt1")
  \/ \E s \in Sessions : Logout(s)

SpecRoute == Init /\ [][NextRoute]_vars

\* ------------------------------------------------------------- store
\* The registration file over its life: registrations from the form, Clear
\* All and Delete All, in two sessions.
NextStore ==
  \/ \E s \in Sessions : Start(s)
  \/ \E s \in Sessions : Login(s, DefaultPassword, "salt1")
  \/ \E s \in Sessions :
       FormStepOf(s, {<<"a">>, <<"b">>}, {<<"r", "7">>}, {<<"2", "2">>},
                  {Teacher}, MaxRegsSmall)
  \/ \E s \in Sessions : ClearAll(s)
  \/ \E s \in Sessions : \E conf \in ConfirmInputs : DeleteAll(s, conf)
  \/ \E s \in Sessions : DeleteRerun(s)

SpecStore == Init /\ [][NextStore]_vars

\* ------------------------------------------------------------- numbering
\* Registrations from the form and from Manual Entry, in two sessions whose
\* handlers may interleave, with nothing that empties or replaces the store.
NextSeq ==
  \/ \E s \in Sessions : Start(s)
  \/ \E s \in Sessions : Login(s, DefaultPassword, "salt1")
  \/ \E s \in Sessions :
       FormStepOf(s, {<<"a">>}, {<<"r", "7">>}, {<<"2", "2">>},
                  {Teacher, Participant}, MaxStoreRegs)
  \/ \E s \in Sessions :
       ManualStep(s, {<<"c">>}, {<<" ">>}, {<<>>}, MaxStoreRegs)

SpecSeq == Init /\ [][NextSeq]_vars

\* ------------------------------------------------------------- phrases
\* get_invite_phrase called on its own.  A category is made of one or two
\* words, each a keyword of the function or a word that is none, written
\* in lower case, capitalised, or in upper case.
PlainWords == {<<"s", "t", "u", "d", "e", "n", "t">>, <<"p", "a", "r", "t", "i", "c", "i", "p", "a", "n", "t">>, <<>>}

PhraseWords == PlainWords \cup UNION {PhraseGroups[g].words : g \in 1..7}

CaseStyles == {"lower", "Title", "UPPER"}

Styled(w, style) ==
  CASE style = "UPPER" -> [i \in 1..Len(w) |-> UpperChar(w[i])]
    [] style = "Title" -> [i \in 1..Len(w) |->
                             IF i = 1 THEN UpperChar(w[i]) ELSE w[i]]
    [] OTHER           -> w

\* the category text made of the words w1 and w2
CategoryOf(w1, w2, style) ==
  IF w2 = <<>> THEN Styled(w1, style)
  ELSE Styled(w1, style) \o <<" ", "&", " ">> \o Styled(w2, style)

InitPhrase ==
  /\ dataFile = NoDataFile
  /\ configFile = NoConfigFile
  /\ authFile = NoAuthFile
  /\ started         = [s \in Sessions |-> FALSE]
  /\ admin_auth      = [s \in Sessions |-> FALSE]
  /\ form_submitted  = [s \in Sessions |-> FALSE]
  /\ last_submission = [s \in Sessions |-> EmptyRec]
  /\ invitation_png  = [s \in Sessions |-> NoPng]
  /\ sess_cfg        = [s \in Sessions |-> <<>>]
  /\ template_bytes  = [s \in Sessions |-> FALSE]
  /\ pc              = [s \in Sessions |-> "idle"]
  /\ local           = [s \in Sessions |-> NoLocal]
  /\ rowInfo         = <<>>
  /\ since           = [s \in Sessions |-> 0]
  /\ backupDir       = <<>>
  /\ day             = 1
  /\ \E w1 \in PhraseWords, w2 \in PhraseWords, style \in CaseStyles :
       ui = [sess |-> "", op |-> "category", msg |-> <<w1, w2, style>>]

CallGetInvitePhrase ==
  /\ ui.op = "category"
  /\ ui' = [sess |-> "", op |-> "get_invite_phrase",
            msg |-> Append(ui.msg,
                           GetInvitePhrase(CategoryOf(ui.msg[1], ui.msg[2],
                                                      ui.msg[3])))]
  /\ UNCHANGED <<files, started, admin_auth, formSess, sess_cfg,
                 template_bytes, pc, local, rowInfo, since, backupDir, day>>

NextPhrase == CallGetInvitePhrase

SpecPhrase == InitPhrase /\ [][NextPhrase]_vars

\* ------------------------------------------------------------- missing files
\* load_registrations, load_config and clear_registrations called on their
\* own, over files that are missing, in order, or damaged.
UnreadableData == [exists |-> TRUE, bytes |-> <<"\\xff\\xfe">>]

DataFiles ==
  { NoDataFile,
    [exists |-> TRUE, header |-> CSV_HEADERS, rows |-> <<>>],
    [exists |-> TRUE, header |-> CSV_HEADERS,
     rows   |-> << << <<"T","-","0","0","0","1">>, <<"y">>, <<"r","7">>,
                      <<"C","S">>, <<>>, Teacher, <<"Old Event">>,
                      Today, Clock >> >>],
    UnreadableData }

\* a file cut short in the middle of a write, and a file holding JSON that
\* is no object
GarbledConfig   == [exists |-> TRUE, text |-> <<"{", "\"event_name\": \"Ga">>]
NonObjectConfig == [exists |-> TRUE, value |-> "null"]

ConfigFiles ==
  { NoConfigFile,
    SaveConfig([event_name |-> <<"Gala">>]),
    GarbledConfig,
    NonObjectConfig }

InitMissing ==
  /\ dataFile \in DataFiles
  /\ configFile \in ConfigFiles
  /\ authFile = NoAuthFile
  /\ started         = [s \in Sessions |-> FALSE]
  /\ admin_auth      = [s \in Sessions |-> FALSE]
  /\ form_submitted  = [s \in Sessions |-> FALSE]
  /\ last_submission = [s \in Sessions |-> EmptyRec]
  /\ invitation_png  = [s \in Sessions |-> NoPng]
  /\ sess_cfg        = [s \in Sessions |-> <<>>]
  /\ template_bytes  = [s \in Sessions |-> FALSE]
  /\ pc              = [s \in Sessions |-> "idle"]
  /\ local           = [s \in Sessions |-> NoLocal]
  /\ ui              = [sess |-> "", op |-> "init", msg |-> <<>>]
  /\ rowInfo         = <<>>
  /\ since           = [s \in Sessions |-> 0]
  /\ backupDir       = <<>>
  /\ day             = 1

\* load_registrations() called by the thread of session s
CallLoadRegistrations(s) ==
  /\ pc[s] = "idle"
  /\ Say(s, "load_registrations", <<LoadRegistrations(dataFile)>>)
  /\ UNCHANGED <<files, started, admin_auth, formSess, sess_cfg,
                 template_bytes, pc, local, rowInfo, since>>
  /\ NoBackup

\* load_config() called by the thread of session s
CallLoadConfig(s) ==
  /\ pc[s] = "idle"
  /\ Say(s, "load_config", <<LoadConfig(configFile)>>)
  /\ UNCHANGED <<files, started, admin_auth, formSess, sess_cfg,
                 template_bytes, pc, local, rowInfo, since>>
  /\ NoBackup

\* clear_registrations(), first half: os.path.exists(DATA_FILE)
CallClearExists(s) ==
  /\ pc[s] = "idle"
  /\ pc' = [pc EXCEPT ![s] = "c_exists"]
  /\ local' = [local EXCEPT ![s] = [exists |-> dataFile.exists]]
  /\ Say(s, "clear_exists", <<>>)
  /\ UNCHANGED <<files, started, admin_auth, formSess, sess_cfg,
                 template_bytes, rowInfo, since>>
  /\ NoBackup

\* clear_registrations(), second half: os.remove(DATA_FILE) if the file was
\* found; os.remove raises when another thread removed the file meanwhile
CallClearRemove(s) ==
  /\ pc[s] = "c_exists"
  /\ IF ~local[s].exists
     THEN /\ Say(s, "clear_registrations", <<[outcome |-> "nothing"]>>)
          /\ UNCHANGED <<dataFile, rowInfo>>
     ELSE IF dataFile.exists
          THEN /\ dataFile' = ClearRegistrations(dataFile)
               /\ rowInfo' = <<>>
               /\ Say(s, "clear_registrations", <<[outcome |-> "removed"]>>)
          ELSE /\ Say(s, "clear_registrations", <<Raised>>)
               /\ UNCHANGED <<dataFile, rowInfo>>
  /\ pc' = [pc EXCEPT ![s] = "idle"]
  /\ local' = [local EXCEPT ![s] = NoLocal]
  /\ UNCHANGED <<configFile, authFile, started, admin_auth, formSess,
                 sess_cfg, template_bytes, since>>
  /\ NoBackup

NextMissing ==
  \/ \E s \in Sessions : CallLoadRegistrations(s)
  \/ \E s \in Sessions : CallLoadConfig(s)
  \/ \E s \in Sessions : CallClearExists(s)
  \/ \E s \in Sessions : CallClearRemove(s)

SpecMissing == InitMissing /\ [][NextMissing]_vars

\* ============================================================= properties
Rows(df) == IF df.exists THEN df.rows ELSE <<>>

\* the text after the last "-" of a reference code
RefSuffix(ref) ==
  LET dashes == {i \in 1..Len(ref) : ref[i] = "-"}
      last   == CHOOSE i \in dashes : \A j \in dashes : j <= i
  IN  SubSeq(ref, last + 1, Len(ref))

\* ------------------------------------------------------------- C1
C1Order(s) ==
  /\ pc[s] # pc'[s] =>
       <<pc[s], pc'[s]>> \in {<<"idle", "gotref">>, <<"gotref", "saved">>,
                              <<"saved", "rendered">>, <<"rendered", "idle">>}
  /\ (~Confirmation(s) /\ Confirmation(s)') => pc[s] = "rendered"
  /\ (pc[s] = "idle" /\ pc'[s] = "gotref") =>
       /\ dataFile' = dataFile
       /\ local'[s].rec.ref_no = GenerateRefNo(dataFile, local'[s].rec.category)
       /\ ~form_submitted'[s]
  /\ (pc[s] = "gotref" /\ pc'[s] = "saved") =>
       /\ dataFile'.exists
       /\ dataFile'.rows = Rows(dataFile) \o <<CsvRow(local[s].rec)>>
       /\ dataFile'.rows[Len(dataFile'.rows)][1] = local[s].rec.ref_no
       /\ local'[s].rec = local[s].rec
       /\ ~local'[s].png.set
       /\ ~form_submitted'[s]
  /\ (pc[s] = "saved" /\ pc'[s] = "rendered") =>
       /\ dataFile' = dataFile
       /\ local'[s].rec = local[s].rec
       /\ local'[s].png.set /\ local'[s].png.rec = local[s].rec
       /\ ~form_submitted'[s]
  /\ (pc[s] = "rendered" /\ pc'[s] = "idle") =>
       /\ dataFile' = dataFile
       /\ Confirmation(s)'
       /\ last_submission'[s] = local[s].rec
       /\ invitation_png'[s].rec = local[s].rec

\* C1: a valid form submission computes the reference code, then appends
\* exactly one row carrying it, then renders the card from that record, and
\* only then enters the confirmation state, where last_submission is the
\* record that was appended.
C1_SubmitOrder ==
  [][\A s \in Sessions : started'[s] => C1Order(s)]_vars

C1_Witness ==
  \E s \in Sessions :
    /\ Confirmation(s)
    /\ Len(Rows(dataFile)) = 2
    /\ Rows(dataFile)[2] = CsvRow(last_submission[s])
    /\ invitation_png[s].rec = last_submission[s]

\* ------------------------------------------------------------- C2
\* where the words of a text start
WordStarts(c) ==
  {i \in 1..Len(c) : c[i] \notin Whitespace
                       /\ (i = 1 \/ c[i - 1] \in Whitespace)}

SetMin(S) == CHOOSE i \in S : \A j \in S : i <= j

ExpectedCode(c) ==
  LET ws == WordStarts(c)
  IN  IF ws = {} THEN <<"R">>
      ELSE IF Cardinality(ws) = 1 THEN <<UpperChar(c[SetMin(ws)])>>
      ELSE <<UpperChar(c[SetMin(ws)]),
             UpperChar(c[SetMin(ws \ {SetMin(ws)})])>>

\* ref is code, "-", and n in decimal padded with zeros to four digits
WellFormed(ref, code, n) ==
  LET d == SubSeq(ref, Len(code) + 2, Len(ref))
  IN  /\ Len(ref) >= Len(code) + 1 + RefWidth
      /\ SubSeq(ref, 1, Len(code)) = code
      /\ ref[Len(code) + 1] = "-"
      /\ IsDigitText(d) /\ ParseNat(d) = n
      /\ Len(d) > RefWidth => d[1] # "0"

\* C2: generate_ref_no(category) returns "<code>-<n>": n is the number of
\* stored records plus one, in decimal, zero-padded to at least 4 digits;
\* <code> is the upper-cased first character of the first word, followed by
\* that of the second word when there is one, or "R" when there is no word;
\* the call changes no stored state.
C2_GenerateRefNo ==
  [][/\ ui'.op = "generate_ref_no" =>
          LET category == ui'.msg[1]
              ref      == ui'.msg[2]
          IN  /\ category \in CategoryInputs
              /\ WellFormed(ref, ExpectedCode(category),
                            Len(LoadRegistrations(dataFile)) + 1)
              /\ Len(LoadRegistrations(dataFile)) < 9999
                   => Len(ref) = Len(ExpectedCode(category)) + 1 + 4
              /\ dataFile' = dataFile /\ configFile' = configFile
              /\ authFile' = authFile
     /\ \A n \in {9, 10, 999, 1000, 9999, 10000, 12345} :
          WellFormed(FormatRef(<<"G", "S">>, n), <<"G", "S">>, n)]_vars

C2_Witness ==
  /\ ui.op = "generate_ref_no"
  /\ ui.msg = <<GuestSpeaker, <<"G", "S", "-", "0", "0", "0", "3">> >>
  /\ Len(LoadRegistrations(dataFile)) = 2

\* ------------------------------------------------------------- C3
\* C3: save_registration appends exactly one row: load_registrations then
\* returns the earlier records unchanged and in order, followed by a record
\* whose nine fields are those of the record saved (a missing field being
\* the empty text), and the config and auth files are untouched.
C3_AppendRoundTrip ==
  [][\A rec \in RecordInputs :
       CallSaveRegistration(rec) =>
         LET before == LoadRegistrations(dataFile)
             after  == LoadRegistrations(dataFile')
         IN  /\ Len(after) = Len(before) + 1
             /\ SubSeq(after, 1, Len(before)) = before
             /\ \A i \in 1..Len(CSV_HEADERS) :
                  LET k == CSV_HEADERS[i]
                  IN  /\ k \in DOMAIN after[Len(after)]
                      /\ after[Len(after)][k] =
                           (IF k \in DOMAIN rec THEN rec[k] ELSE <<>>)
             /\ configFile' = configFile
             /\ authFile' = authFile]_vars

\* ------------------------------------------------------------- C4
AdminOps == {"save_settings", "manual_entry", "manual_rejected",
             "manual_saved", "clear_all", "delete_all", "delete_rerun",
             "restore",
             "bulk_generate", "backup_download", "change_password",
             "upload_template", "logout"}

\* C4: an admin operation runs only in a session whose admin_auth is true;
\* admin_auth becomes true only in the session that clicks Login with a
\* password check_password accepts, a rejected login changes no flag, and
\* Logout sets the flag of its session to false.
C4_AdminGate ==
  [][/\ ui'.op \in AdminOps => admin_auth[ui'.sess]
     /\ ui'.op = "logout" => ~admin_auth'[ui'.sess]
     /\ \A s \in Sessions :
          /\ (~admin_auth[s] /\ admin_auth'[s]) =>
               /\ ui'.op = "login" /\ ui'.sess = s
               /\ \E pwd \in PasswordInputs, salt \in Salts :
                    Login(s, pwd, salt) /\ CheckPassword(authFile, pwd, salt)
               /\ \A t \in Sessions \ {s} : admin_auth'[t] = admin_auth[t]
          /\ (ui'.op = "login" /\ ui'.sess = s) =>
               \A pwd \in PasswordInputs, salt \in Salts :
                 (Login(s, pwd, salt) /\ ~CheckPassword(authFile, pwd, salt))
                   => admin_auth' = admin_auth]_vars

C4_Witness ==
  /\ ui.op = "logout" /\ ~admin_auth[ui.sess]
  /\ \E t \in Sessions : admin_auth[t]
  /\ dataFile.exists /\ configFile.exists /\ authFile.changed

\* ------------------------------------------------------------- C5
\* C5: a form submission is rejected exactly when the trimmed name is empty,
\* or the category is a configured student category (compared without case)
\* and the trimmed roll number or trimmed batch is empty; a rejection shows
\* the missing fields, appends no row and leaves form_submitted,
\* last_submission and invitation_png alone.  Otherwise the submission goes
\* on to generate_ref_no.
C5_FormValidation ==
  [][(ui'.op \in {"submit", "submit_rejected"}) =>
       \A name \in {<<" ">>, <<" ", "a", " ">>}, dept \in DeptInputs,
          category \in CategoryChoices, rollno \in RollInputs,
          batch_in \in BatchInputs :
         LET s == ui'.sess IN
         SubmitClick(s, name, dept, category, rollno, batch_in) =>
           LET student == \E c \in Range(SplitOn(LoadConfig(configFile)["student_cats"],
                                                  ",", <<>>)) :
                             Lower(Strip(c)) = Lower(category)
               noName  == Strip(name) = <<>>
               noRoll  == student /\ Strip(rollno) = <<>>
               noBatch == student /\ Strip(batch_in) = <<>>
           IN  IF noName \/ noRoll \/ noBatch
               THEN /\ ui'.op = "submit_rejected"
                    /\ ("Full Name" \in Range(ui'.msg)) <=> noName
                    /\ ("Roll No" \in Range(ui'.msg)) <=> noRoll
                    /\ ("Batch" \in Range(ui'.msg)) <=> noBatch
                    /\ dataFile' = dataFile /\ pc' = pc
                    /\ form_submitted' = form_submitted
                    /\ last_submission' = last_submission
                    /\ invitation_png' = invitation_png
               ELSE /\ ui'.op = "submit"
                    /\ pc'[s] = "gotref"]_vars

C5_Witness ==
  /\ ui.op = "submit_rejected"
  /\ ui.msg = <<"Batch">>
  /\ configFile.exists
  /\ Len(Rows(dataFile)) = 1

\* ------------------------------------------------------------- C6
InFlight(s) == pc[s] \in {"saved", "rendered"}

\* C6: two sessions that both ran generate_ref_no before either ran
\* save_registration (the store being written by nobody else meanwhile) got
\* the same sequence number, and both rows were appended: the store ends
\* with their two records, which carry the same numeric suffix, and the same
\* reference code when their category codes agree.
C6_DuplicateSequence ==
  \A s \in Sessions, t \in Sessions :
    (s # t /\ InFlight(s) /\ InFlight(t) /\ since[s] = 2 /\ since[t] = 2) =>
      LET regs == LoadRegistrations(dataFile)
          n    == Len(regs)
          rs   == local[s].rec
          rt   == local[t].rec
      IN  /\ n >= 2
          /\ {dataFile.rows[n - 1], dataFile.rows[n]} = {CsvRow(rs), CsvRow(rt)}
          /\ RefSuffix(regs[n - 1]["ref_no"]) = RefSuffix(regs[n]["ref_no"])
          /\ RefSuffix(rs.ref_no) = RefSuffix(rt.ref_no)
          /\ RefCode(rs.category) = RefCode(rt.category)
               => regs[n - 1]["ref_no"] = regs[n]["ref_no"]

C6_Witness ==
  \E s \in Sessions, t \in Sessions :
    /\ s # t /\ InFlight(s) /\ InFlight(t) /\ since[s] = 2 /\ since[t] = 2
    /\ Len(rowInfo) = 2
    /\ LoadRegistrations(dataFile)[1]["ref_no"]
         = LoadRegistrations(dataFile)[2]["ref_no"]

\* ------------------------------------------------------------- C7
FirstFailure(af, cur_p, new_p, cnf_p) ==
  CASE ~VerifyPassword(cur_p, af.hash, af.salt) -> "Wrong current password!"
    [] VerifyPassword(cur_p, af.hash, af.salt) /\ Len(new_p) < 8
         -> "Min 8 characters!"
    [] VerifyPassword(cur_p, af.hash, af.salt) /\ Len(new_p) >= 8
         /\ new_p # cnf_p -> "Passwords don't match!"
    [] VerifyPassword(cur_p, af.hash, af.salt) /\ Len(new_p) >= 8
         /\ new_p = cnf_p /\ new_p = cur_p -> "Same as current!"
    [] OTHER -> "none"

\* C7: the stored password is replaced only when the current password
\* verifies, the new one has at least 8 characters, equals the confirmation
\* and differs from the current one, tested in this order (the first test
\* that fails names the message); otherwise the auth file is unchanged.
\* After a change the new password is accepted and the old one rejected.
C7_PasswordChange ==
  [][\A s \in Sessions :
       \A cur_p \in PasswordInputs, new_p \in PasswordInputs,
          cnf_p \in PasswordInputs, salt \in Salts :
         ChangePassword(s, cur_p, new_p, cnf_p, salt) =>
           LET why == FirstFailure(authFile, cur_p, new_p, cnf_p)
           IN  /\ authFile.exists
               /\ why # "none" => authFile' = authFile /\ ui'.msg = << why >>
               /\ why = "none" =>
                    /\ authFile' # authFile
                    /\ \A x \in Salts :
                         /\ CheckPassword(authFile', new_p, x)
                         /\ ~CheckPassword(authFile', cur_p, x)]_vars

C7_Witness ==
  /\ ui.op = "change_password" /\ ui.msg = <<PwUpdated>>
  /\ CheckPassword(authFile, Pw8, "salt1")
  /\ ~CheckPassword(authFile, DefaultPassword, "salt1")

\* ------------------------------------------------------------- C8
\* C8: with no auth file, the first load_auth (through check_password)
\* creates one holding the hash of Admin@2025, so a login with Admin@2025
\* succeeds and any other fails; an existing auth file is never rewritten
\* by load_auth (only a successful password change replaces it).
C8_DefaultPassword ==
  [][/\ \A s \in Sessions : \A pwd \in PasswordInputs, salt \in Salts :
          Login(s, pwd, salt) =>
            IF authFile.exists
            THEN authFile' = authFile
            ELSE /\ authFile'.exists
                 /\ authFile'.hash = HashPassword(DefaultPassword, authFile'.salt)
                 /\ admin_auth'[s] <=> (pwd = DefaultPassword)
     /\ (authFile.exists /\ authFile' # authFile) =>
          ui'.op = "change_password" /\ ui'.msg = <<PwUpdated>>]_vars

C8_Witness ==
  /\ ui.op = "login" /\ ui.msg = <<"ok">>
  /\ authFile.exists /\ ~authFile.changed
  /\ \E t \in Sessions : started[t] /\ ~admin_auth[t]

SessKey(k) == IF k = "student_cats" THEN "student_cats_input" ELSE k

\* C10: after Save All Settings load_config returns, for each of the twelve
\* keys, the value the saving session held; a session that starts takes its
\* twelve settings from load_config, a key absent from the file having the
\* value of CFG_DEFAULTS; nothing but Save All Settings writes the file, so
\* the saved values outlive a restart.
C10_SettingsSurvive ==
  [][/\ \A s \in Sessions :
          SaveAllSettings(s) =>
            \A k \in CFG_KEYS : LoadConfig(configFile')[k] = sess_cfg[s][SessKey(k)]
     /\ \A s \in Sessions :
          Start(s) =>
            \A k \in CFG_KEYS :
              /\ sess_cfg'[s][SessKey(k)] = LoadConfig(configFile)[k]
              /\ (~configFile.exists \/ k \notin DOMAIN configFile.saved)
                   => sess_cfg'[s][SessKey(k)] = CFG_DEFAULTS[k]
              /\ (configFile.exists /\ k \in DOMAIN configFile.saved)
                   => sess_cfg'[s][SessKey(k)] = configFile.saved[k]
     /\ configFile' # configFile => ui'.op = "save_settings"]_vars

C10_Witness ==
  /\ ui.op = "start"
  /\ configFile.exists /\ DOMAIN configFile.saved = CFG_KEYS
  /\ sess_cfg[ui.sess]["event_name"] = <<"Tech Fest">>
  /\ sess_cfg[ui.sess]["student_cats_input"] = AltStudentCats
  /\ sess_cfg[ui.sess]["categories"] = AltCategories
  /\ \A t \in Sessions \ {ui.sess} : ~started[t]

\* ------------------------------------------------------------- C11
\* the operations that begin a script run
RunOps == {"start", "submit", "submit_rejected", "new_registration", "login",
           "logout", "edit_setting", "save_settings", "change_password",
           "manual_entry", "manual_rejected", "clear_all", "delete_all",
           "delete_rerun",
           "upload_template", "bulk_generate", "backup_download", "restore"}

\* C11: every script run calls auto_backup, which writes the backup of the
\* current day only if there is none: after a run the day has a backup, a
\* backup once written is never changed or removed, and a backup that is
\* written holds the registration and config files as they are at that run
\* (and never the auth file), so that the day's backup shows the files at
\* the first run of the day whatever is registered later.
C11_DailyBackup ==
  [][/\ ui'.op \in RunOps => day \in DOMAIN backupDir'
     /\ \A d \in DOMAIN backupDir :
          d \in DOMAIN backupDir' /\ backupDir'[d] = backupDir[d]
     /\ \A d \in DOMAIN backupDir' \ DOMAIN backupDir :
          LET zip == backupDir'[d]
          IN  /\ d = day /\ ui'.op \in RunOps
              /\ "auth.json" \notin DOMAIN zip
              /\ ("registrations.csv" \in DOMAIN zip) <=> dataFile.exists
              /\ dataFile.exists =>
                   zip["registrations.csv"].rows = dataFile.rows
              /\ ("config.json" \in DOMAIN zip) <=> configFile.exists
              /\ configFile.exists => zip["config.json"] = configFile.saved]_vars

C11_Witness ==
  /\ DOMAIN backupDir = {1, 2}
  /\ "registrations.csv" \notin DOMAIN backupDir[1]
  /\ "registrations.csv" \in DOMAIN backupDir[2]
  /\ Len(backupDir[2]["registrations.csv"].rows) = 1
  /\ Len(Rows(dataFile)) = 1
  /\ "config.json" \notin DOMAIN backupDir[2]
  /\ configFile.exists

\* ------------------------------------------------------------- C12
\* C12: the archive create_backup builds for the Download Backup ZIP button
\* holds exactly the registration file if it exists, the config file if it
\* exists, and a README entry, each file with its current content; it never
\* holds the auth file, and building it changes none of the three files.
C12_BackupContents ==
  [][ui'.op = "backup_download" =>
       LET zip == ui'.msg[1]
       IN  /\ DOMAIN zip = {"README.txt"}
                  \cup (IF dataFile.exists THEN {"registrations.csv"} ELSE {})
                  \cup (IF configFile.exists THEN {"config.json"} ELSE {})
           /\ "auth.json" \notin DOMAIN zip
           /\ dataFile.exists =>
                /\ zip["registrations.csv"].header = dataFile.header
                /\ zip["registrations.csv"].rows = dataFile.rows
           /\ configFile.exists => zip["config.json"] = configFile.saved
           /\ dataFile' = dataFile /\ configFile' = configFile
           /\ authFile' = authFile]_vars

C12_Witness ==
  /\ ui.op = "backup_download"
  /\ DOMAIN ui.msg[1] = {"README.txt", "registrations.csv", "config.json"}
  /\ Len(ui.msg[1]["registrations.csv"].rows) = 1
  /\ authFile.exists /\ authFile.changed

\* ------------------------------------------------------------- C13
\* C13: Delete All empties the store only when the text typed is exactly
\* DELETE; when it does, a backup holding the registrations as they were is
\* taken before the store is cleared, and once the handler has finished the
\* page still offers that backup to the administrator for download.
C13_DeleteAllBackup ==
  [][\A s \in Sessions :
       /\ \A conf \in ConfirmInputs :
            DeleteAll(s, conf) =>
              IF conf = "DELETE"
              THEN /\ LoadRegistrations(dataFile') = <<>>
                   /\ local'[s].bak = CreateBackup(dataFile, configFile, authFile)
                   /\ local'[s].bak \in Range(ui'.msg)
              ELSE dataFile' = dataFile
       /\ DeleteRerun(s) => local[s].bak \in Range(ui'.msg)]_vars

\* ------------------------------------------------------------- C14
FormOps == {"submit", "submit_rejected", "submit_saved", "submit_rendered",
            "confirmation", "new_registration"}

\* C14: with page = "form" a script run draws the form page (the form or
\* the confirmation view) whatever admin_auth is, and no step of the form
\* page changes admin_auth; with any other value of page, or none, it draws
\* the admin page: the login form alone while admin_auth is false, the
\* dashboard otherwise.
C14_Routing ==
  [][/\ ui'.op = "view" =>
          LET s == ui'.sess
          IN  \A qp \in QueryInputs :
                Visit(s, qp) =>
                  /\ admin_auth' = admin_auth
                  /\ ("page" \in DOMAIN qp /\ qp["page"] = "form") =>
                       ui'.msg[2] = (IF form_submitted[s] /\ invitation_png[s].set
                                     THEN "confirmation" ELSE "form")
                  /\ ~("page" \in DOMAIN qp /\ qp["page"] = "form") =>
                       ui'.msg[2] = (IF admin_auth[s] THEN "dashboard"
                                     ELSE "login")
     /\ ui'.op \in FormOps => admin_auth' = admin_auth]_vars

C14_Witness ==
  /\ ui.op = "view" /\ ui.msg = <<"form", "confirmation">>
  /\ admin_auth[ui.sess]
  /\ \E t \in Sessions : started[t] /\ ~admin_auth[t]

\* ------------------------------------------------------------- C15
\* the group a word belongs to: 1 teacher, 2 speaker, 3 chief, 4 judge,
\* 5 business, 6 management, 7 alumni; 8 for a word of no group
GroupOf(w) ==
  IF \E g \in 1..7 : w \in PhraseGroups[g].words
  THEN CHOOSE g \in 1..7 : w \in PhraseGroups[g].words
  ELSE 8

PhraseTable ==
  <<"You are cordially invited as", "We are honored to welcome",
    "It is our privilege to invite", "You are invited to serve as",
    "We are pleased to welcome">>

\* C15: whatever the case of the letters, a category with a teacher keyword
\* gets "You are cordially invited as", a speaker keyword "We are honored to
\* welcome", a chief/director/ceo/vip keyword "It is our privilege to
\* invite", a judge keyword "You are invited to serve as", a business
\* keyword "We are pleased to welcome", and a category with no keyword "We
\* are pleased to invite"; with keywords of two groups the group that comes
\* first in the order teacher, speaker, chief, judge, business, management,
\* alumni decides.
C15_InvitePhrase ==
  [][ui'.op = "get_invite_phrase" =>
       LET w1     == ui'.msg[1]
           w2     == ui'.msg[2]
           g      == IF GroupOf(w1) <= GroupOf(w2) THEN GroupOf(w1)
                     ELSE GroupOf(w2)
           first  == IF GroupOf(w1) <= GroupOf(w2) THEN w1 ELSE w2
           phrase == ui'.msg[4]
       IN  /\ g <= 5 => phrase = PhraseTable[g]
           /\ g = 8 => phrase = "We are pleased to invite"
           /\ phrase = GetInvitePhrase(first)
           /\ g \in {6, 7} => phrase \notin Range(PhraseTable)
                                 \cup {"We are pleased to invite"}]_vars

C15_Witness ==
  /\ ui.op = "get_invite_phrase"
  /\ ui.msg[1] = <<"a", "l", "u", "m", "n", "i">>
  /\ ui.msg[2] = <<"s", "p", "e", "a", "k", "e", "r">>
  /\ ui.msg[3] = "UPPER"
  /\ ui.msg[4] = "We are honored to welcome"

\* ------------------------------------------------------------- C16
\* the entries of an archive whose names end with the given extension
EntriesOf(entries, ext) ==
  {i \in 1..Len(entries) : entries[i][Len(entries[i])] = ext}

\* C16: Generate All over a store of n records reports n done, leaves the
\* store as it was, and for each checked format puts n files with n
\* different names in the archive, the i-th carrying the name of the i-th
\* registration.
C16_BulkGenerate ==
  [][ui'.op = "bulk_generate" =>
       LET regs    == LoadRegistrations(dataFile)
           n       == Len(regs)
           entries == ui'.msg[2]
           Format(checked, ext) ==
             IF ~checked THEN EntriesOf(entries, ext) = {}
             ELSE /\ Cardinality(EntriesOf(entries, ext)) = n
                  /\ Cardinality({entries[i] : i \in EntriesOf(entries, ext)}) = n
                  /\ \A k \in 1..n :
                       \E i \in EntriesOf(entries, ext) :
                         Contains(entries[i], regs[k]["name"])
       IN  /\ ui'.msg[1] = Decimal(n)
           /\ dataFile' = dataFile
           /\ Format(ui'.msg[3], ".png")
           /\ Format(ui'.msg[4], ".pdf")]_vars

\* ------------------------------------------------------------- C17
\* the rows of an uploaded file as csv.DictReader gives them
UploadedRows(upl) ==
  [i \in 1..Len(upl.rows) |-> DictRow(upl.header, upl.rows[i])]

\* C17: after Confirm Restore load_registrations returns exactly the rows of
\* the uploaded file, in their order, and the next reference code carries
\* the number of uploaded rows plus one; a file in the uploader without
\* Confirm Restore changes no file.
C17_Restore ==
  [][LET upl == ui'.msg[2]
         Confirmed ==
           /\ LoadRegistrations(dataFile') = UploadedRows(upl)
           /\ RefSuffix(GenerateRefNo(dataFile', Teacher))
                = ZeroPad(Decimal(Len(upl.rows) + 1), RefWidth)
     IN  CASE ui'.op = "restore"         -> Confirmed
           [] ui'.op = "restore_preview" -> files' = files
           [] OTHER                      -> TRUE]_vars

\* ------------------------------------------------------------- C18
\* the store was emptied by the last answer: Clear All, or Delete All with
\* DELETE typed
JustCleared(u, p) ==
  \/ u.op = "clear_all"
  \/ u.op = "delete_all" /\ p[u.sess] = "d_rerun"

\* C18: after Clear All or Delete All the store is empty and the next
\* reference code issued carries the sequence number 0001 again, whatever
\* was issued before.
C18_RefReuse ==
  [][JustCleared(ui', pc') =>
       /\ LoadRegistrations(dataFile') = <<>>
       /\ \A c \in CategoryChoices :
            RefSuffix(GenerateRefNo(dataFile', c)) = <<"0", "0", "0", "1">>]_vars

\* a session still shows the confirmation of its registration, the store
\* holds a single row, and that row carries the same reference code for
\* somebody else: the code was issued a second time after the clear
C18_Witness ==
  \E s \in Sessions :
    /\ form_submitted[s]
    /\ pc[s] = "idle"
    /\ Len(Rows(dataFile)) = 1
    /\ Rows(dataFile)[1][1] = last_submission[s]["ref_no"]
    /\ Rows(dataFile)[1][2] # last_submission[s]["name"]

\* ------------------------------------------------------------- C19
\* every stored row was written by the form or by Manual Entry, and no other
\* write to the store came between its generate_ref_no and its
\* save_registration
OneAtATime ==
  /\ Len(rowInfo) = Len(Rows(dataFile))
  /\ \A i \in 1..Len(rowInfo) :
       rowInfo[i].via \in {"form", "manual"} /\ ~rowInfo[i].stale

\* C19: when the registrations were added one at a time, the k-th stored
\* row carries the sequence number k, so the numbers are pairwise distinct
\* and increase along the store.
C19_Sequential ==
  OneAtATime =>
    \A k \in 1..Len(Rows(dataFile)) :
      RefSuffix(Rows(dataFile)[k][1]) = ZeroPad(Decimal(k), RefWidth)

C19_Witness ==
  /\ OneAtATime
  /\ Len(Rows(dataFile)) = 2
  /\ rowInfo[1].via = "form"
  /\ rowInfo[2].via = "manual"

\* ------------------------------------------------------------- C20
\* a session whose form_submitted is true has the record and the card of
\* its registration
SubmittedHasCard ==
  \A s \in Sessions :
    form_submitted[s] =>
      last_submission[s] # EmptyRec /\ invitation_png[s].set

\* C20: form_submitted = true only together with a non-empty
\* last_submission and an invitation_png that is set; a script run of the
\* form page in a session that shows the confirmation appends no row to the
\* store; New Registration puts form_submitted, last_submission and
\* invitation_png back to false, empty and none, and changes no file.
C20_ConfirmationState ==
  /\ []SubmittedHasCard
  /\ [][LET s == ui'.sess
        IN  /\ (ui'.op \in FormOps \cup {"view"} /\ Confirmation(s)) =>
                 dataFile' = dataFile
            /\ (ui'.op = "new_registration") =>
                 /\ Confirmation(s)
                 /\ form_submitted'[s] = FALSE
                 /\ last_submission'[s] = EmptyRec
                 /\ invitation_png'[s] = NoPng
                 /\ files' = files]_vars

C20_Witness ==
  /\ ui.op = "view" /\ ui.msg = <<"form", "confirmation">>
  /\ form_submitted[ui.sess]
  /\ last_submission[ui.sess]["name"] = <<"a">>
  /\ Len(Rows(dataFile)) = 1
  /\ \E t \in Sessions : t # ui.sess /\ started[t] /\ ~form_submitted[t]

\* ------------------------------------------------------------- C21
\* C21: load_registrations answers a missing or unreadable registration file
\* with the empty list, load_config answers a missing or unparsable config
\* file with CFG_DEFAULTS, clear_registrations called when the file is
\* missing does nothing; none of them raises, and none of these calls
\* creates or changes a file.
C21_MissingFiles ==
  [][LET s == ui'.sess
     IN  CASE ui'.op = "load_registrations" ->
                /\ files' = files
                /\ IF dataFile \in {NoDataFile, UnreadableData}
                   THEN ui'.msg[1] = <<>>
                   ELSE Len(ui'.msg[1]) = Len(dataFile.rows)
           [] ui'.op = "load_config" ->
                /\ files' = files
                /\ ui'.msg[1] # Raised
                /\ configFile \in {NoConfigFile, GarbledConfig,
                                   NonObjectConfig} =>
                     ui'.msg[1] = CFG_DEFAULTS
           [] ui'.op = "clear_exists" -> files' = files
           [] ui'.op = "clear_registrations" /\ ~local[s].exists ->
                /\ files' = files
                /\ ui'.msg[1] = [outcome |-> "nothing"]
           [] OTHER -> TRUE]_vars

C21_Witness ==
  /\ ui.op = "load_config"
  /\ configFile = GarbledConfig
  /\ dataFile = UnreadableData
  /\ ui.msg[1] = CFG_DEFAULTS

====
